---- MODULE Spec2Model ----
(***************************************************************************)
(* vgm-admin: the upload endpoint (POST /api/upload), the list endpoint    *)
(* (GET /api/images), the object store they talk to, and the uploader UI's *)
(* task list.                                                              *)
(*                                                                         *)
(* Strings the code computes with (file names, keys, URLs) are sequences   *)
(* of one-character strings, so that split, concatenation and ordering are *)
(* computed and not assumed.  Messages that are only compared are TLA+     *)
(* strings.                                                                *)
(***************************************************************************)
EXTENDS Integers, Sequences, FiniteSets, TLC

VARIABLES
    bucket,     \* the store: a sequence of objects in ascending key order
    clock,      \* the store's clock, stamped on each written object
    uuidCount,  \* how many identifiers uuidv4() has handed out
    reqs,       \* the server's requests, in arrival order, with their answers
    files,      \* the uploader's task list (useState<UploadedFile[]>)
    xhrs,       \* the uploader's requests in flight
    nextTask,   \* how many tasks the uploader has created
    shown,      \* the task list of the uploader's last render
    sent,       \* how many upload requests were sent with each task's file
    galLoading, \* the gallery's loading
    galError,   \* the gallery's error ("" for null)
    galImages,  \* the gallery's images
    fetches,    \* the gallery's list requests still outstanding
    nextFetch   \* how many list requests the gallery has issued

gallery == <<galLoading, galError, galImages, fetches, nextFetch>>

vars == <<bucket, clock, uuidCount, reqs, files, xhrs, nextTask, shown, sent, gallery>>

(***************************************************************************)
(* Bounds of the model.                                                    *)
(***************************************************************************)
\* Requests the server receives in one run.
MaxReqs == 3
\* Objects a drawn bucket holds under the prefix (beside the prefix marker).
MaxObjs == 4
\* The largest last-modified stamp of a drawn bucket.
MaxStamp == 3
\* Keys the store returns in one listing page (1000 in S3 and R2; scaled).
MaxKeys == 4
\* Tasks the uploader creates in one run.
MaxTasks == 3
\* List requests the gallery issues in one run.
MaxFetches == 4

(***************************************************************************)
(* Strings.                                                                *)
(***************************************************************************)
\* The characters of the model in ASCII order.
Alphabet == <<"-", ".", "/", "0", "1", "2", "3", "4", "5", "6", "7", "8", "9",
              ":", "a", "b", "c", "d", "e", "f", "j", "l", "n", "o", "p", "s",
              "u", "x">>

Rank(c) == CHOOSE i \in 1..Len(Alphabet) : Alphabet[i] = c

\* a < b in the store's key order (UTF-8 binary order).
RECURSIVE KeyLess(_, _)
KeyLess(a, b) ==
    IF b = <<>> THEN FALSE
    ELSE IF a = <<>> THEN TRUE
    ELSE IF Head(a) # Head(b) THEN Rank(Head(a)) < Rank(Head(b))
    ELSE KeyLess(Tail(a), Tail(b))

HasPrefix(s, p) == Len(s) >= Len(p) /\ SubSeq(s, 1, Len(p)) = p

\* String.prototype.split(sep) for a one-character separator.
RECURSIVE Split(_, _)
Split(s, sep) ==
    IF \A i \in 1..Len(s) : s[i] # sep THEN <<s>>
    ELSE LET i == CHOOSE j \in 1..Len(s) :
                      s[j] = sep /\ \A k \in 1..(j - 1) : s[k] # sep
         IN <<SubSeq(s, 1, i - 1)>> \o Split(SubSeq(s, i + 1, Len(s)), sep)

\* Array.prototype.pop(): the last element.
Pop(a) == a[Len(a)]

(***************************************************************************)
(* Configuration and constants of the endpoints.                           *)
(***************************************************************************)
\* R2_PUBLIC_URL: some base URL without a trailing slash.
publicUrl == <<"c", "d", "n", ":", "x">>

Prefix == <<"u", "p", "l", "o", "a", "d", "s", "/">>

allowedTypes == {"image/jpeg", "image/png", "image/gif", "image/webp"}

maxSize == 10 * 1024 * 1024

\* `${publicUrl}/${key}`
UrlOf(key) == publicUrl \o <<"/">> \o key

\* uuidv4(): the n-th identifier handed out.  Identifiers have a fixed length
\* and hold hexadecimal digits only; uuidv4 is taken at its contract, that no
\* identifier is handed out twice.
HexDigits == <<"0", "1", "2", "3", "4", "5", "6", "7", "8", "9",
               "a", "b", "c", "d", "e", "f">>

uuidv4(n) == <<HexDigits[((n \div 16) % 16) + 1], HexDigits[(n % 16) + 1]>>

\* file.name.split(".").pop()
fileExtension(name) == Pop(Split(name, "."))

KeyNameless(uuid, name) == Prefix \o name

\* `uploads/${uuidv4()}.${fileExtension}`
MakeKey(uuid, name) == Prefix \o uuid \o <<".">> \o fileExtension(name)

(***************************************************************************)
(* The object store.                                                       *)
(***************************************************************************)
NoDate == -1

HasKey(b, key) == \E i \in 1..Len(b) : b[i].key = key

\* PutObject: writes the object at its key, replacing an object of that key.
PutObject(b, obj) ==
    IF HasKey(b, obj.key)
    THEN [i \in 1..Len(b) |-> IF b[i].key = obj.key THEN obj ELSE b[i]]
    ELSE LET n == Cardinality({i \in 1..Len(b) : KeyLess(b[i].key, obj.key)})
         IN SubSeq(b, 1, n) \o <<obj>> \o SubSeq(b, n + 1, Len(b))

\* ListObjectsV2 with a Prefix: one page, the first MaxKeys matching objects in
\* key order.  The request carries no continuation token.
UnderPrefix(b, p) == SelectSeq(b, LAMBDA o : HasPrefix(o.key, p))

ListPage(b, p) ==
    LET all == UnderPrefix(b, p)
    IN [Contents |-> SubSeq(all, 1, IF Len(all) < MaxKeys THEN Len(all) ELSE MaxKeys),
        IsTruncated |-> Len(all) > MaxKeys]

(***************************************************************************)
(* GET /api/images: filter, map, sort.                                     *)
(***************************************************************************)
\* Date.prototype.toISOString() and new Date(iso).getTime(): the ISO string
\* carries the date's milliseconds.  undefined is the empty tuple.
toISOString(ms) == <<"iso", ms>>

getTime(iso) == iso[2]

Missing(lastModified) == lastModified = <<>>

\* .filter((obj) => obj.Key && obj.Key !== "uploads/")
KeepObject(obj) == obj.key # <<>> /\ obj.key # Prefix

\* .map((obj) => ({key, url, size, lastModified}))
ToImage(obj) ==
    [key |-> obj.key,
     url |-> UrlOf(obj.key),
     size |-> obj.size,
     lastModified |-> IF obj.lastModified = NoDate THEN <<>>
                      ELSE toISOString(obj.lastModified)]

MapImages(objs) == [i \in 1..Len(objs) |-> ToImage(objs[i])]

\* The comparator of .sort(): 0 when either side has no timestamp, else the
\* difference of the times, newest first.
CompareAscending(a, b) ==
    IF Missing(a.lastModified) \/ Missing(b.lastModified) THEN 0
    ELSE getTime(a.lastModified) - getTime(b.lastModified)

CompareMissingFirst(a, b) ==
    IF Missing(a.lastModified) \/ Missing(b.lastModified) THEN -1
    ELSE getTime(b.lastModified) - getTime(a.lastModified)

CompareImages(a, b) ==
    IF Missing(a.lastModified) \/ Missing(b.lastModified) THEN 0
    ELSE getTime(b.lastModified) - getTime(a.lastModified)

\* Array.prototype.sort as Node's engine runs it on an array shorter than 64
\* (one run, extended by binary insertion): CountAndMakeRun finds the run at
\* the start and reverses it when it is strictly descending.
RECURSIVE RunLength(_, _, _)
RunLength(arr, idx, descending) ==
    IF idx > Len(arr) THEN Len(arr)
    ELSE LET order == CompareImages(arr[idx], arr[idx - 1])
         IN IF descending
            THEN IF order >= 0 THEN idx - 1 ELSE RunLength(arr, idx + 1, descending)
            ELSE IF order < 0 THEN idx - 1 ELSE RunLength(arr, idx + 1, descending)

Reverse(s) == [i \in 1..Len(s) |-> s[Len(s) + 1 - i]]

\* The place binary search gives the pivot among arr[left..right-1].
RECURSIVE InsertionPoint(_, _, _, _)
InsertionPoint(arr, pivot, left, right) ==
    IF left < right
    THEN LET mid == left + ((right - left) \div 2)
             order == CompareImages(pivot, arr[mid])
         IN IF order < 0 THEN InsertionPoint(arr, pivot, left, mid)
            ELSE InsertionPoint(arr, pivot, mid + 1, right)
    ELSE left

RECURSIVE BinaryInsertionSort(_, _)
BinaryInsertionSort(arr, start) ==
    IF start > Len(arr) THEN arr
    ELSE LET pivot == arr[start]
             left == InsertionPoint(arr, pivot, 1, start)
         IN BinaryInsertionSort(
                SubSeq(arr, 1, left - 1) \o <<pivot>> \o SubSeq(arr, left, start - 1)
                    \o SubSeq(arr, start + 1, Len(arr)),
                start + 1)

SortImages(arr) ==
    IF Len(arr) < 2 THEN arr
    ELSE LET descending == CompareImages(arr[2], arr[1]) < 0
             run == RunLength(arr, 3, descending)
             made == IF descending
                     THEN Reverse(SubSeq(arr, 1, run)) \o SubSeq(arr, run + 1, Len(arr))
                     ELSE arr
         IN BinaryInsertionSort(made, run + 1)

\* Lines 14-25: the images of a listing page.
ImagesOf(contents) == SortImages(MapImages(SelectSeq(contents, KeepObject)))

(***************************************************************************)
(* Requests and responses of the two endpoints.                            *)
(***************************************************************************)
NoRes ==
    [status |-> 0, error |-> "", details |-> "", fileUrl |-> <<>>, key |-> <<>>,
     images |-> <<>>, unhandled |-> FALSE]

\* NextResponse.json(body, {status})
JsonError(status, error, details) ==
    [NoRes EXCEPT !.status = status, !.error = error, !.details = details]

\* error instanceof Error ? error.message : "Unknown error"
ErrorMessage(err) == IF err.isError THEN err.message ELSE "Unknown error"

Rethrow(label, err) == [NoRes EXCEPT !.status = 500, !.unhandled = TRUE]

\* The catch block of a handler.
Catch(label, err) == JsonError(500, label, ErrorMessage(err))

\* What the platform and the SDK throw.
FormDataError == [isError |-> TRUE, message |-> "Failed to parse body as FormData."]
RejectedError == [isError |-> TRUE, message |-> "Access Denied"]
TimeoutError == [isError |-> TRUE, message |-> "socket hang up"]

\* The file names of the drawn requests: without a dot, with one, with a
\* trailing one, with several, and with a '/' after the last one.
Names ==
    {<<"p">>, <<"p", ".", "j">>, <<"p", ".">>, <<"a", ".", "b", ".", "j">>,
     <<"p", ".", "/", "x">>}

\* Their types: every allowed one, one that is not, and none (a text field
\* named file has no type).
Types == allowedTypes \cup {"image/bmp", ""}

\* Their sizes: small, the ceiling itself, and one byte more.
Sizes == {1, maxSize, maxSize + 1}

NoFileBody(readable) ==
    [readable |-> readable, hasFile |-> FALSE, name |-> <<>>, type |-> "", size |-> 0]

FileBody(name, type, size) ==
    [readable |-> TRUE, hasFile |-> TRUE, name |-> name, type |-> type, size |-> size]

\* The bodies a single request is drawn from.
Bodies ==
    {NoFileBody(FALSE), NoFileBody(TRUE)}
        \cup {FileBody(n, t, z) : n \in Names, t \in Types, z \in Sizes}

\* The bodies of the requests of a run of several: unreadable, without a
\* file, two files that pass, one of another type and one too large.
RunBodies ==
    {NoFileBody(FALSE), NoFileBody(TRUE),
     FileBody(<<"p", ".", "j">>, "image/jpeg", maxSize),
     FileBody(<<"p", ".", "/", "x">>, "image/png", 1),
     FileBody(<<"p", ".", "j">>, "image/bmp", 1),
     FileBody(<<"p", ".", "j">>, "image/webp", maxSize + 1)}

\* A request as the server holds it: its input, where its handler stands, and
\* its answer; writes counts the PutObjectCommands it sent, raised tells that
\* an error was thrown in its handler, acked holds the uploads answered 200
\* before it arrived, stored and page what the store held and returned when
\* it answered the listing.
Request(kind, body) ==
    [kind |-> kind, body |-> body, pc |-> "done", key |-> <<>>, writes |-> 0,
     raised |-> FALSE, acked |-> {}, stored |-> {}, page |-> <<>>, res |-> NoRes]

AnyType(type) == TRUE

\* allowedTypes.includes(file.type)
TypeAllowed(type) == type \in allowedTypes

AtCeiling(size) == size >= maxSize

\* file.size > maxSize
TooLarge(size) == size > maxSize

\* Lines 8-47 of POST: read the form, validate, make the key and send the
\* PutObjectCommand; a request that passes is left waiting for the store.
PostBegin(body) ==
    /\ Len(reqs) < MaxReqs
    /\ LET r == Request("POST", body)
       IN IF ~body.readable
          THEN /\ reqs' = Append(reqs, [r EXCEPT !.raised = TRUE,
                                   !.res = Catch("Failed to upload file", FormDataError)])
               /\ UNCHANGED uuidCount
          ELSE IF ~body.hasFile
          THEN /\ reqs' = Append(reqs, [r EXCEPT
                                   !.res = JsonError(400, "File is required", "")])
               /\ UNCHANGED uuidCount
          ELSE IF ~TypeAllowed(body.type)
          THEN /\ reqs' = Append(reqs, [r EXCEPT !.res = JsonError(400,
                                   "Invalid file type. Allowed: JPEG, PNG, GIF, WebP", "")])
               /\ UNCHANGED uuidCount
          ELSE IF TooLarge(body.size)
          THEN /\ reqs' = Append(reqs, [r EXCEPT !.res = JsonError(400,
                                   "File size exceeds 10MB limit", "")])
               /\ UNCHANGED uuidCount
          ELSE /\ reqs' = Append(reqs, [r EXCEPT !.pc = "sending", !.writes = 1,
                                   !.key = MakeKey(uuidv4(uuidCount), body.name)])
               /\ uuidCount' = uuidCount + 1
    /\ UNCHANGED <<bucket, clock, files, xhrs, nextTask, shown, sent, gallery>>

\* Lines 47-54 of POST, the store answering: the object is written and the
\* handler answers 200.
PostStored(i) ==
    /\ i \in 1..Len(reqs)
    /\ reqs[i].kind = "POST" /\ reqs[i].pc = "sending"
    /\ bucket' = PutObject(bucket, [key |-> reqs[i].key, size |-> reqs[i].body.size,
                                    lastModified |-> clock, by |-> i])
    /\ clock' = clock + 1
    /\ reqs' = [reqs EXCEPT ![i].pc = "done",
                            ![i].res = [NoRes EXCEPT !.status = 200,
                                                     !.fileUrl = UrlOf(reqs[i].key),
                                                     !.key = reqs[i].key]]
    /\ UNCHANGED <<uuidCount, files, xhrs, nextTask, shown, sent, gallery>>

\* Lines 47 and 55-62 of POST: send throws, the store having refused the
\* object (written = FALSE) or written it and the answer being lost.
PostFailed(i, written) ==
    /\ i \in 1..Len(reqs)
    /\ reqs[i].kind = "POST" /\ reqs[i].pc = "sending"
    /\ IF written
       THEN /\ bucket' = PutObject(bucket, [key |-> reqs[i].key,
                                            size |-> reqs[i].body.size,
                                            lastModified |-> clock, by |-> i])
            /\ clock' = clock + 1
       ELSE UNCHANGED <<bucket, clock>>
    /\ reqs' = [reqs EXCEPT ![i].pc = "done", ![i].raised = TRUE,
                            ![i].res = Catch("Failed to upload file",
                                             IF written THEN TimeoutError ELSE RejectedError)]
    /\ UNCHANGED <<uuidCount, files, xhrs, nextTask, shown, sent, gallery>>

\* The uploads answered 200 so far.
Acked == {i \in 1..Len(reqs) : reqs[i].kind = "POST" /\ reqs[i].res.status = 200}

\* Lines 7-12 of GET: send the ListObjectsV2Command.
ListBegin ==
    /\ Len(reqs) < MaxReqs
    /\ reqs' = Append(reqs, [Request("GET", NoFileBody(TRUE)) EXCEPT
                                !.pc = "sending", !.acked = Acked])
    /\ UNCHANGED <<bucket, clock, uuidCount, files, xhrs, nextTask, shown, sent, gallery>>

\* Lines 12-27 of GET, the store answering with its page.
ListDone(i) ==
    /\ i \in 1..Len(reqs)
    /\ reqs[i].kind = "GET" /\ reqs[i].pc = "sending"
    /\ LET response == ListPage(bucket, Prefix)
           all == UnderPrefix(bucket, Prefix)
       IN reqs' = [reqs EXCEPT ![i].pc = "done",
                               ![i].stored = {all[j].key : j \in 1..Len(all)},
                               ![i].page = [j \in 1..Len(response.Contents) |->
                                               response.Contents[j].key],
                               ![i].res = [NoRes EXCEPT !.status = 200,
                                              !.images = ImagesOf(response.Contents)]]
    /\ UNCHANGED <<bucket, clock, uuidCount, files, xhrs, nextTask, shown, sent, gallery>>

\* Lines 12 and 28-35 of GET: send throws.
ListFailed(i) ==
    /\ i \in 1..Len(reqs)
    /\ reqs[i].kind = "GET" /\ reqs[i].pc = "sending"
    /\ reqs' = [reqs EXCEPT ![i].pc = "done", ![i].raised = TRUE,
                            ![i].res = Catch("Failed to list images", RejectedError)]
    /\ UNCHANGED <<bucket, clock, uuidCount, files, xhrs, nextTask, shown, sent, gallery>>

(***************************************************************************)
(* The uploader: its task list and its requests in flight.                 *)
(***************************************************************************)
MAX_FILE_SIZE == 10 * 1024 * 1024

ALLOWED_TYPES == {"image/jpeg", "image/png", "image/gif", "image/webp"}

\* validateFile: the message of the failed constraint, or "" for null.
validateFile(file) ==
    IF file.type \notin ALLOWED_TYPES
    THEN "Invalid file type. Allowed: JPEG, PNG, GIF, WebP"
    ELSE IF file.size > MAX_FILE_SIZE THEN "File size exceeds 10MB limit"
    ELSE ""

\* The files a user picks or drops: one that passes, one of another type, one
\* too large.
PickedFiles ==
    {[type |-> "image/png", size |-> 1], [type |-> "image/bmp", size |-> 1],
     [type |-> "image/png", size |-> MAX_FILE_SIZE + 1]}

\* The selections of one pick or drop: one file or two.
Selections == {<<f>> : f \in PickedFiles} \cup {<<f, g>> : f, g \in PickedFiles}

\* The task addFiles makes of a file; id tells the tasks apart and is no
\* field of the code's UploadedFile.
NewTask(file, id) ==
    [id |-> id, file |-> file, progress |-> 0,
     status |-> IF validateFile(file) # "" THEN "error" ELSE "pending",
     url |-> <<>>, error |-> validateFile(file)]

Stale(current, next) == current

\* What the component shows after a handler of a discrete event (click, drop,
\* change): React renders the handler's updates before the next event, so
\* the next handler's `files` is the updated list.
Render(current, next) == next

\* addFiles: append a task per selected file.
addFiles(newFiles) ==
    /\ nextTask + Len(newFiles) <= MaxTasks
    /\ files' = files \o [k \in 1..Len(newFiles) |-> NewTask(newFiles[k], nextTask + k)]
    /\ nextTask' = nextTask + Len(newFiles)
    /\ shown' = Render(shown, files')
    /\ UNCHANGED <<bucket, clock, uuidCount, reqs, xhrs, sent, gallery>>

\* prev.map((f, i) => (i === index ? change(f) : f)) with the change given as
\* the task's new value.
SetAt(prev, index, changed) ==
    [i \in 1..Len(prev) |-> IF i = index THEN changed ELSE prev[i]]

\* uploadFile returns at once on a task in error.
Starts(uploadedFile) == uploadedFile.status # "error"

\* file.status === "pending"
IsPending(file) == file.status = "pending"

\* How many of a set of indices are at most i.
Order(started, i) == Cardinality({j \in started : j <= i})

\* How many requests were sent with the file of a task.
SentFor(task) == IF task \in DOMAIN sent THEN sent[task] ELSE 0

\* uploadAllFiles: uploadFile(file, index) for every task pending in the
\* rendered `files`: the task at index of the current list (prev) becomes
\* uploading with progress 0, and a request with the file is sent whose
\* handlers remember index.  The button shows while a rendered task is
\* pending.
uploadAllFiles ==
    LET started == {i \in 1..Len(shown) : IsPending(shown[i]) /\ Starts(shown[i])}
    IN /\ started # {}
       /\ files' = [i \in 1..Len(files) |->
                       IF i \in started
                       THEN [files[i] EXCEPT !.status = "uploading", !.progress = 0]
                       ELSE files[i]]
       /\ xhrs' = xhrs \cup {[n |-> SentFor(shown[i].id) + 1, index |-> i,
                              task |-> shown[i].id] : i \in started}
       /\ sent' = [t \in DOMAIN sent \cup {shown[i].id : i \in started} |->
                      IF \E i \in started : shown[i].id = t
                      THEN SentFor(t) + 1 ELSE SentFor(t)]
       /\ shown' = Render(shown, files')
       /\ UNCHANGED <<bucket, clock, uuidCount, reqs, nextTask, gallery>>

\* prev.filter((_, i) => i !== index)
Without(prev, index) ==
    LET kept == {i \in 1..Len(prev) : i # index}
    IN [k \in 1..Cardinality(kept) |-> prev[CHOOSE i \in kept : Order(kept, i) = k]]

\* removeFile: drop the task at index; a request in flight is not aborted.
removeFile(index) ==
    /\ index \in 1..Len(shown)
    /\ files' = Without(files, index)
    /\ shown' = Render(shown, files')
    /\ UNCHANGED <<bucket, clock, uuidCount, reqs, xhrs, nextTask, sent, gallery>>

\* The render React schedules after the handler of a request's event.
render ==
    /\ shown # files
    /\ shown' = files
    /\ UNCHANGED <<bucket, clock, uuidCount, reqs, files, xhrs, nextTask, sent, gallery>>

\* xhr.upload.onprogress with a computable length.
Percents == {50}

onprogress(x, progress) ==
    /\ x \in xhrs
    /\ files' = IF x.index \in 1..Len(files)
                THEN SetAt(files, x.index, [files[x.index] EXCEPT !.progress = progress])
                ELSE files
    /\ UNCHANGED <<bucket, clock, uuidCount, reqs, xhrs, nextTask, shown, sent, gallery>>

\* What the upload endpoint, or a proxy before it, answers: 200 with the
\* file's URL, an error status with {error}, an error status with JSON
\* holding no error, and an error status with a body that is not JSON.
Answers ==
    {[status |-> 200, json |-> TRUE, error |-> ""],
     [status |-> 400, json |-> TRUE, error |-> "File is required"],
     [status |-> 500, json |-> TRUE, error |-> ""],
     [status |-> 502, json |-> FALSE, error |-> ""]}

\* The fileUrl of the answer to the request sent for a task's file.
FileUrlFor(task) == UrlOf(MakeKey(uuidv4(task), <<"p", ".", "j">>))

\* xhr.onload: on 200 the task at the remembered index is completed with the
\* answer's fileUrl; otherwise it is in error with the answer's error or
\* "Upload failed".  JSON.parse throws on a body that is not JSON, and the
\* handler ends there.
onload(x, answer) ==
    /\ x \in xhrs
    /\ xhrs' = xhrs \ {x}
    /\ files' =
          IF ~answer.json \/ x.index \notin 1..Len(files) THEN files
          ELSE IF answer.status = 200
          THEN SetAt(files, x.index, [files[x.index] EXCEPT !.status = "completed",
                                          !.progress = 100, !.url = FileUrlFor(x.task)])
          ELSE SetAt(files, x.index, [files[x.index] EXCEPT !.status = "error",
                                          !.error = IF answer.error # "" THEN answer.error
                                                    ELSE "Upload failed"])
    /\ UNCHANGED <<bucket, clock, uuidCount, reqs, nextTask, shown, sent, gallery>>

\* xhr.onerror: the task at the remembered index is in error.
onerror(x) ==
    /\ x \in xhrs
    /\ xhrs' = xhrs \ {x}
    /\ files' = IF x.index \in 1..Len(files)
                THEN SetAt(files, x.index, [files[x.index] EXCEPT !.status = "error",
                                                !.error = "Upload failed"])
                ELSE files
    /\ UNCHANGED <<bucket, clock, uuidCount, reqs, nextTask, shown, sent, gallery>>

(***************************************************************************)
(* The buckets a run starts from.                                          *)
(***************************************************************************)
Obj(name, stamp) ==
    [key |-> Prefix \o name, size |-> 1, lastModified |-> stamp, by |-> 0]

Marker == [key |-> Prefix, size |-> 0, lastModified |-> 0, by |-> 0]

Outside == [key |-> <<"l", "o", "-", "x">>, size |-> 1, lastModified |-> 0, by |-> 0]

\* Empty; or an object outside the prefix, the prefix marker and three older
\* objects, whose keys sort before every uploaded key.
OlderObjects == <<Outside, Marker, Obj(<<"-", "a">>, 0), Obj(<<"-", "b">>, 0),
                  Obj(<<"-", "c">>, 0)>>

StartBuckets == {<<>>, OlderObjects}

ClientIdle ==
    /\ files = <<>> /\ xhrs = {} /\ nextTask = 0 /\ shown = <<>> /\ sent = <<>>
    /\ galLoading = TRUE /\ galError = "" /\ galImages = <<>>
    /\ fetches = {} /\ nextFetch = 0

Init ==
    /\ bucket \in StartBuckets
    /\ clock = 1
    /\ uuidCount = 0
    /\ reqs = <<>>
    /\ ClientIdle

Next ==
    \/ \E body \in RunBodies : PostBegin(body)
    \/ \E i \in 1..MaxReqs : PostStored(i)
    \/ \E i \in 1..MaxReqs, written \in BOOLEAN : PostFailed(i, written)
    \/ ListBegin
    \/ \E i \in 1..MaxReqs : ListDone(i)
    \/ \E i \in 1..MaxReqs : ListFailed(i)

Spec == Init /\ [][Next]_vars

\* One upload request, drawn from every body.
NextPost ==
    \/ \E body \in Bodies : reqs = <<>> /\ PostBegin(body)
    \/ \E i \in 1..MaxReqs : PostStored(i)
    \/ \E i \in 1..MaxReqs, written \in BOOLEAN : PostFailed(i, written)

SpecPost == Init /\ [][NextPost]_vars

\* One listing of a drawn bucket.
ObjNames == <<"a", "b", "c", "d", "e", "f", "j", "l">>

Stamps == {NoDate} \cup 1..MaxStamp

\* An object outside the prefix and the prefix marker, or neither, then up to
\* MaxObjs objects in key order, each with a stamp or none.
DrawnBuckets ==
    {pre \o [i \in 1..Len(stamps) |-> Obj(<<ObjNames[i]>>, stamps[i])] :
        pre \in {<<>>, <<Marker>>, <<Outside, Marker>>},
        stamps \in UNION {[1..m -> Stamps] : m \in 0..MaxObjs}}

InitList ==
    /\ bucket \in DrawnBuckets
    /\ clock = 1
    /\ uuidCount = 0
    /\ reqs = <<>>
    /\ ClientIdle

NextList ==
    \/ reqs = <<>> /\ ListBegin
    \/ \E i \in 1..MaxReqs : ListDone(i)
    \/ \E i \in 1..MaxReqs : ListFailed(i)

SpecList == InitList /\ [][NextList]_vars

(***************************************************************************)
(* The gallery: its loading flag, its error, its images and its request.   *)
(***************************************************************************)
\* The stores a gallery's request may meet.
GalleryBuckets ==
    {<<>>, OlderObjects,
     <<Marker, Obj(<<"a">>, 1), Obj(<<"b">>, 2)>>,
     <<Obj(<<"a">>, 2), Obj(<<"b">>, NoDate), Obj(<<"c">>, 3)>>}

\* What fetch("/api/images") may bring: the handler's 200 answer with its
\* list, a 200 answer whose body cannot be parsed, the handler's 500 answer,
\* or no answer at all.
GalleryAnswers ==
    {[kind |-> "ok", images |-> ImagesOf(ListPage(b, Prefix).Contents)] :
        b \in GalleryBuckets}
    \cup {[kind |-> k, images |-> <<>>] : k \in {"garbled", "status", "network"}}

\* What the catch block of fetchImages stores for a failed request.
GalleryMessage(answer) ==
    IF answer.kind = "status" THEN "Failed to fetch images"
    ELSE IF answer.kind = "network" THEN "Failed to fetch"
    ELSE "Unexpected token"

LeaveLoading(loading) == loading

\* setLoading(true)
StartLoading(loading) == TRUE

\* What the component renders.
View ==
    IF galLoading THEN "loading" ELSE IF galError # "" THEN "error" ELSE "grid"

\* fetchImages up to its await: loading is set, the error cleared and the
\* request sent.
fetchImages ==
    /\ nextFetch < MaxFetches
    /\ \E answer \in GalleryAnswers :
           fetches' = fetches \cup {[id |-> nextFetch + 1, answer |-> answer]}
    /\ nextFetch' = nextFetch + 1
    /\ galLoading' = StartLoading(galLoading)
    /\ galError' = ""
    /\ UNCHANGED <<bucket, clock, uuidCount, reqs, files, xhrs, nextTask, shown, sent,
                   galImages>>

\* useEffect(() => fetchImages(), []): once, after the first render.
mount == nextFetch = 0 /\ fetchImages

\* The retry button of the error view.
retry == View = "error" /\ fetchImages

\* The refresh button of the grid view.
refresh == View = "grid" /\ fetchImages

\* fetchImages after its await: the images of an ok answer are stored as
\* received, anything else stores a message; loading is cleared either way.
settle(f) ==
    /\ f \in fetches
    /\ fetches' = fetches \ {f}
    /\ IF f.answer.kind = "ok"
       THEN galImages' = f.answer.images /\ galError' = galError
       ELSE galError' = GalleryMessage(f.answer) /\ galImages' = galImages
    /\ galLoading' = FALSE
    /\ UNCHANGED <<bucket, clock, uuidCount, reqs, files, xhrs, nextTask, shown, sent,
                   nextFetch>>

InitGallery ==
    /\ bucket = <<>>
    /\ clock = 1
    /\ uuidCount = 0
    /\ reqs = <<>>
    /\ ClientIdle

NextGallery ==
    \/ mount
    \/ retry
    \/ refresh
    \/ \E f \in fetches : settle(f)

SpecGallery == InitGallery /\ [][NextGallery]_vars

(***************************************************************************)
(* Properties of the upload endpoint.                                      *)
(***************************************************************************)
Posts == {i \in 1..Len(reqs) : reqs[i].kind = "POST"}

Gets == {i \in 1..Len(reqs) : reqs[i].kind = "GET"}

WrittenBy(i) == {j \in 1..Len(bucket) : bucket[j].by = i}

BadType(body) ==
    body.type \notin {"image/jpeg", "image/png", "image/gif", "image/webp"}

FailsValidation(body) ==
    body.readable /\ (~body.hasFile \/ BadType(body) \/ body.size > 10485760)

PassesValidation(body) ==
    body.readable /\ body.hasFile /\ ~BadType(body) /\ body.size <= 10485760

\* C1: a POST request that fails validation (no file, a type outside the four
\* allowed, a size above 10 MiB) is answered 400 with the message of a
\* constraint it failed, and no object write is issued for it.
C1_InvalidRejected ==
    \A i \in Posts :
        FailsValidation(reqs[i].body) =>
            /\ reqs[i].pc = "done"
            /\ reqs[i].res.status = 400
            /\ \/ reqs[i].res.error = "File is required" /\ ~reqs[i].body.hasFile
               \/ /\ reqs[i].res.error = "Invalid file type. Allowed: JPEG, PNG, GIF, WebP"
                  /\ reqs[i].body.hasFile /\ BadType(reqs[i].body)
               \/ /\ reqs[i].res.error = "File size exceeds 10MB limit"
                  /\ reqs[i].body.hasFile /\ reqs[i].body.size > 10485760
            /\ reqs[i].writes = 0
            /\ WrittenBy(i) = {}

\* A file of an allowed type, one byte too large, has been answered 400.
C1_Witness ==
    \E i \in Posts :
        /\ reqs[i].body.hasFile /\ ~BadType(reqs[i].body)
        /\ reqs[i].body.size = 10485761
        /\ reqs[i].res.status = 400

\* C2: a valid POST request (file present, allowed type, at most 10 MiB, the
\* ceiling included) issues exactly one object write, whether the write
\* succeeds or not, and never leaves more than one object.
C2_OneWritePerValid ==
    \A i \in Posts :
        PassesValidation(reqs[i].body) =>
            /\ reqs[i].writes = 1
            /\ Cardinality(WrittenBy(i)) <= 1
            /\ reqs[i].res.status = 200 => Cardinality(WrittenBy(i)) = 1

\* A file of exactly 10 MiB has been written and answered 200.
C2_Witness ==
    \E i \in Posts :
        /\ PassesValidation(reqs[i].body) /\ reqs[i].body.size = 10485760
        /\ reqs[i].res.status = 200 /\ reqs[i].writes = 1

\* C3: no two uploads get the same key, an upload waiting for the store never
\* finds an object at its key, and a 200 answer's fileUrl is the public base,
\* "/" and the key of the same answer.
C3_UniqueKeys ==
    /\ \A i, j \in Posts :
          (i # j /\ reqs[i].key # <<>> /\ reqs[j].key # <<>>) => reqs[i].key # reqs[j].key
    /\ \A i \in Posts : reqs[i].pc = "sending" => ~HasKey(bucket, reqs[i].key)
    /\ \A i \in Posts :
          reqs[i].res.status = 200 =>
              /\ reqs[i].res.key = reqs[i].key
              /\ reqs[i].res.fileUrl = publicUrl \o <<"/">> \o reqs[i].res.key
              /\ Len(bucket) >= Cardinality({j \in Posts : reqs[j].res.status = 200})

\* Two uploads of the same file have both been answered 200.
C3_Witness ==
    \E i, j \in Posts :
        /\ i # j /\ reqs[i].body = reqs[j].body
        /\ reqs[i].res.status = 200 /\ reqs[j].res.status = 200

\* The part of a key after the prefix.
AfterPrefix(key) == SubSeq(key, Len(Prefix) + 1, Len(key))

\* C4: for every file name, the key written is uploads/ followed by the
\* generated token and the extension, and names an object directly under
\* uploads/: nothing after the prefix holds a '/', and no segment is '..'.
C4_KeyDirectlyUnderPrefix ==
    \A i \in Posts :
        reqs[i].key # <<>> =>
            /\ HasPrefix(reqs[i].key, Prefix)
            /\ \A k \in 1..Len(AfterPrefix(reqs[i].key)) : AfterPrefix(reqs[i].key)[k] # "/"
            /\ \A k \in 1..Len(Split(reqs[i].key, "/")) :
                   Split(reqs[i].key, "/")[k] # <<".", ".">>

\* C5: every error raised in a handler (the body cannot be read, the store's
\* put or list fails) is answered 500 with the handler's error and the
\* error's message as details; no request ends unhandled, and an upload not
\* answered 200 returns no fileUrl and no key.
C5_ErrorsCaught ==
    /\ \A i \in 1..Len(reqs) :
          reqs[i].raised =>
              /\ reqs[i].pc = "done"
              /\ reqs[i].res.status = 500
              /\ reqs[i].res.error = (IF reqs[i].kind = "POST" THEN "Failed to upload file"
                                      ELSE "Failed to list images")
              /\ reqs[i].res.details # ""
    /\ \A i \in 1..Len(reqs) : ~reqs[i].res.unhandled
    /\ \A i \in Posts :
          reqs[i].res.status # 200 => reqs[i].res.fileUrl = <<>> /\ reqs[i].res.key = <<>>

\* An unreadable upload, an upload whose put failed and a listing that failed
\* have all been answered.
C5_Witness ==
    /\ \E i \in Posts : reqs[i].raised /\ ~reqs[i].body.readable
    /\ \E i \in Posts : reqs[i].raised /\ reqs[i].key # <<>>
    /\ \E i \in Gets : reqs[i].raised

(***************************************************************************)
(* Properties of the list endpoint.                                        *)
(***************************************************************************)
\* The listings answered 200.
Listed == {i \in Gets : reqs[i].pc = "done" /\ reqs[i].res.status = 200}

Stamped(image) == image.lastModified # <<>>

TimeOf(image) == image.lastModified[2]

\* C6: a 200 list holds no entry whose key is exactly uploads/, every entry's
\* url is the public base, "/" and its key, and when every entry has a
\* timestamp the entries are in non-increasing timestamp order.
C6_NoMarkerAndNewestFirst ==
    \A i \in Listed :
        LET images == reqs[i].res.images
        IN /\ \A k \in 1..Len(images) :
                 /\ images[k].key # <<"u", "p", "l", "o", "a", "d", "s", "/">>
                 /\ images[k].url = publicUrl \o <<"/">> \o images[k].key
           /\ (\A k \in 1..Len(images) : Stamped(images[k])) =>
                 \A k, l \in 1..Len(images) :
                     k < l => TimeOf(images[k]) >= TimeOf(images[l])

\* A page that held the marker and three stamped objects, oldest first, has
\* been listed.
C6_Witness ==
    \E i \in Listed :
        LET images == reqs[i].res.images
        IN /\ Len(images) = 3
           /\ reqs[i].page[1] = Prefix
           /\ \A k \in 1..3 : Stamped(images[k])
           /\ images[1].key = reqs[i].page[4]
           /\ TimeOf(images[1]) > TimeOf(images[3])

\* The keys of a page that the filter keeps, in the store's order.
Kept(page) == SelectSeq(page, LAMBDA key : key # <<>> /\ key # Prefix)

\* Where a key stands in a list of images.
PlaceOf(images, key) == CHOOSE k \in 1..Len(images) : images[k].key = key

IsPermutation(images, keys) ==
    /\ Len(images) = Len(keys)
    /\ \A k \in 1..Len(keys) : \E l \in 1..Len(images) : images[l].key = keys[k]

\* Two entries the comparator calls equal: one has no timestamp, or the
\* timestamps are the same.
ComparedEqual(a, b) == ~Stamped(a) \/ ~Stamped(b) \/ TimeOf(a) = TimeOf(b)

\* C7 as stated: the result is a permutation of the filtered page in which
\* two entries compared as equal keep the order the store returned them in.
C7_EqualKeepOrder ==
    \A i \in Listed :
        LET images == reqs[i].res.images
            keys == Kept(reqs[i].page)
        IN /\ IsPermutation(images, keys)
           /\ \A k, l \in 1..Len(keys) :
                  (k < l /\ ComparedEqual(images[PlaceOf(images, keys[k])],
                                          images[PlaceOf(images, keys[l])]))
                      => PlaceOf(images, keys[k]) < PlaceOf(images, keys[l])

\* The entries with a timestamp stand newest first in the store's order.
StampedInOrder(images, keys) ==
    \A k, l \in 1..Len(keys) :
        LET a == images[PlaceOf(images, keys[k])]
            b == images[PlaceOf(images, keys[l])]
        IN (k < l /\ Stamped(a) /\ Stamped(b)) => TimeOf(a) >= TimeOf(b)

\* C7 (amended): the result is a permutation of the filtered page, and when
\* the entries that have a timestamp already stand newest first in the
\* store's order (as when none has one) the list is the store's order
\* unchanged.
C7_PermutationKeptWhenInOrder ==
    \A i \in Listed :
        LET images == reqs[i].res.images
            keys == Kept(reqs[i].page)
        IN /\ IsPermutation(images, keys)
           /\ StampedInOrder(images, keys) =>
                  \A k \in 1..Len(keys) : images[k].key = keys[k]

\* A list of at least three entries, two with timestamps (newest first in the
\* store's order) and one without between them, has been answered.
C7_Witness ==
    \E i \in Listed :
        LET images == reqs[i].res.images
        IN /\ Len(images) >= 3
           /\ Stamped(images[1]) /\ ~Stamped(images[2]) /\ Stamped(images[3])
           /\ TimeOf(images[1]) > TimeOf(images[3])
           /\ StampedInOrder(images, Kept(reqs[i].page))

\* C8: a 200 list holds every object stored under uploads/ when the store
\* answered, except the prefix marker.
C8_ListsEveryObject ==
    \A i \in Listed :
        \A key \in reqs[i].stored \ {Prefix} :
            \E k \in 1..Len(reqs[i].res.images) : reqs[i].res.images[k].key = key

\* C9: a 200 list that was requested after an upload was answered 200 holds
\* exactly one entry with that upload's key, and its url is that upload's
\* fileUrl.
C9_RoundTrip ==
    \A i \in Listed :
        \A u \in reqs[i].acked :
            LET images == reqs[i].res.images
                same == {k \in 1..Len(images) : images[k].key = reqs[u].res.key}
            IN /\ Cardinality(same) = 1
               /\ \A k \in same : images[k].url = reqs[u].res.fileUrl

(***************************************************************************)
(* The uploader alone.                                                     *)
(***************************************************************************)
InitUploader ==
    /\ bucket = <<>>
    /\ clock = 1
    /\ uuidCount = 0
    /\ reqs = <<>>
    /\ ClientIdle

NextUploader ==
    \/ \E newFiles \in Selections : addFiles(newFiles)
    \/ uploadAllFiles
    \/ \E index \in 1..MaxTasks : removeFile(index)
    \/ \E x \in xhrs, progress \in Percents : onprogress(x, progress)
    \/ \E x \in xhrs, answer \in Answers : onload(x, answer)
    \/ \E x \in xhrs : onerror(x)
    \/ render

SpecUploader == InitUploader /\ [][NextUploader]_vars

\* The status changes the task state machine allows.
AllowedChange(from, to) ==
    \/ from = to
    \/ from = "pending" /\ to = "uploading"
    \/ from = "uploading" /\ to \in {"completed", "error"}

\* C10: every task's status follows pending -> uploading -> completed or
\* pending -> uploading -> error only: a task in completed or error (one that
\* failed local validation is created in error) never changes status again.
C10_StatusTransitions ==
    [][/\ \A i \in 1..Len(files), j \in 1..Len(files') :
              files[i].id = files'[j].id =>
                  AllowedChange(files[i].status, files'[j].status)
       /\ \A j \in 1..Len(files') :
              (\A i \in 1..Len(files) : files[i].id # files'[j].id) =>
                  files'[j].status = (IF validateFile(files'[j].file) # ""
                                      THEN "error" ELSE "pending")]_vars

\* The requests an Upload All step sends with the file of a task.
NewFor(task) == {x \in xhrs' \ xhrs : x.task = task}

\* C11: Upload All sends one request for every task that is pending when it
\* is triggered and makes it uploading; every task that is uploading,
\* completed or in error then keeps its status, progress, URL and error, and
\* no request is sent for it.
C11_UploadAllFrame ==
    [][sent' # sent =>
          /\ Len(files') = Len(files)
          /\ \A i \in 1..Len(files) :
                 IF files[i].status = "pending"
                 THEN files'[i].status = "uploading" /\ Cardinality(NewFor(files[i].id)) = 1
                 ELSE files'[i] = files[i] /\ NewFor(files[i].id) = {}]_vars

\* C12: an event of a request (progress, load, error) changes no task but the
\* one the request was sent for.
C12_EventsChangeOwnTask ==
    [][(sent' = sent /\ nextTask' = nextTask /\ Len(files') = Len(files)) =>
          \A i \in 1..Len(files) :
              files'[i] # files[i] =>
                  IF xhrs \ xhrs' # {}
                  THEN \A x \in xhrs \ xhrs' : x.task = files[i].id
                  ELSE \E x \in xhrs : x.task = files[i].id]_vars

\* C13: when the request of an uploading task finishes (any answer, or a
\* transport error), the task is completed or in error with a message at
\* once; it does not stay uploading.
C13_FinishedIsTerminal ==
    [][\A x \in xhrs \ xhrs' :
          \A i \in 1..Len(files) :
              (files[i].id = x.task /\ files[i].status = "uploading") =>
                  /\ files'[i].status \in {"completed", "error"}
                  /\ files'[i].status = "error" => files'[i].error # ""]_vars

\* C14: while a list request is outstanding the gallery shows the loading
\* view, never the grid or the error; a request that fails (no answer, or an
\* answer that is not 2xx) ends in the error view, where retry sends a new
\* request; a request that succeeds ends in the grid with the images in
\* exactly the order received.
C14_GalleryStates ==
    /\ [](fetches # {} => View = "loading")
    /\ [][\A f \in fetches \ fetches' :
             IF f.answer.kind = "ok"
             THEN galImages' = f.answer.images /\ View' = "grid"
             ELSE View' = "error" /\ galImages' = galImages]_vars
    /\ [][(View = "error" /\ nextFetch' # nextFetch) =>
             /\ Cardinality(fetches') = 1
             /\ View' = "loading"]_vars

\* A list of two images or more was shown, and the request sent from the
\* grid after it was answered with a status that is not 2xx: the error view
\* shows, with retry.
C14_Witness ==
    /\ View = "error" /\ galError = "Failed to fetch images"
    /\ Len(galImages) >= 2
    /\ fetches = {} /\ nextFetch = 2

\* C15: at most one upload request is ever sent with a task's file, and at
\* most one is in flight for it.
C15_OneRequestPerTask ==
    /\ \A t \in DOMAIN sent : sent[t] <= 1
    /\ \A x, y \in xhrs : x.task = y.task => x = y

\* Two tasks' files have been sent, and the rendered list still shows as
\* pending a task that an event has meanwhile changed.
C15_Witness ==
    /\ Cardinality(DOMAIN sent) >= 2
    /\ \E i \in 1..Len(shown) :
           shown[i].status = "pending" /\ files[i].status # "pending"

====
